---- MODULE Spec2Model ----
(***************************************************************************)
(* FileWatch<T> (src/FileWatch.hpp): one watch session.  Three program     *)
(* threads -- the owner (constructor, destructor), the monitor thread      *)
(* (monitor_directory) and the dispatcher thread (callback_thread) -- plus *)
(* the operating system's notification source (inotify on unix,            *)
(* ReadDirectoryChangesW on win32) and the user callback.                  *)
(***************************************************************************)
EXTENDS Naturals, Sequences, FiniteSets, TLC

\* ------------------------------------------------------------------ bounds
\* filesystem mutations the environment performs in one behaviour
MaxOps == 2

VARIABLES
    platform,                 \* "unix" | "win32": which #if branch was compiled
    _path,                    \* constructor argument
    pathType,                 \* what stat / GetFileAttributes says of _path
    _callback,                \* TRUE iff the std::function holds a target
    ownerpc,                  \* position of the owning thread (ctor / dtor)
    folder,                   \* _directory.folder / _directory HANDLE
    watch,                    \* _directory.watch (inotify watch descriptor)
    _close_event,             \* win32 manual-reset event
    _watching_single_file,
    _filename,
    _destory,
    mutex,                    \* _callback_mutex: "free" or its holder
    _callback_information,    \* the shared queue
    watchpc,                  \* position of _watch_thread
    parsed_information,       \* monitor's local batch
    cbpc,                     \* position of _callback_thread
    callback_information,     \* dispatcher's local (swapped out) batch
    running,                  \* threads currently inside the user callback
    terminated,               \* std::terminate was called
    ops,                      \* filesystem mutations performed so far
    oslog,                    \* raw records the OS has produced, in order
    osread,                   \* how many of them the monitor has read
    enqueued,                 \* history: entries appended to the queue
    calls                     \* history: callback invocations

vars == <<platform, _path, pathType, _callback, ownerpc, folder, watch,
          _close_event, _watching_single_file, _filename, _destory, mutex,
          _callback_information, watchpc, parsed_information, cbpc,
          callback_information, running, terminated, ops, oslog, osread,
          enqueued, calls>>

\* groups used in UNCHANGED
session == <<platform, _path, pathType, _callback>>
target  == <<_watching_single_file, _filename>>
osvars  == <<ops, oslog, osread>>
hist    == <<enqueued, calls>>
monvars == <<watchpc, parsed_information>>
cbvars  == <<cbpc, callback_information, running>>

\* ------------------------------------------------------------ input domains
\* file names as character sequences; "s\a" is a file in sub-directory s on
\* win32 (bWatchSubtree = TRUE) and a plain file name on unix
NameA  == <<"a">>
NameB  == <<"b">>
NameSA == <<"s", "\\", "a">>
RawNames == {NameA, NameB, NameSA}

\* constructor arguments, each with what the OS says the path is
Targets == { << <<"d">>, "dir" >>,
             << <<"d", "/", "a">>, "file" >>,
             << <<"d", "/", "a">>, "missing" >> }

\* filesystem mutations of the watched directory
Mutations ==
    { [op |-> "create", name |-> NameA,  to |-> << >>],
      [op |-> "modify", name |-> NameB,  to |-> << >>],
      [op |-> "delete", name |-> NameSA, to |-> << >>],
      [op |-> "rename", name |-> NameA,  to |-> NameB] }

\* --------------------------------------------------------- path resolution
\* the `predict` lambda of split_directory_and_file
IsSeparator(c) ==
    IF platform = "win32" THEN c = "\\" \/ c = "/" ELSE c = "/"

\* std::find_if(path.rbegin(), path.rend(), predict).base(): the number of
\* characters up to and including the last separator, 0 when there is none
Pivot(path) ==
    LET seps == { i \in 1..Len(path) : IsSeparator(path[i]) }
    IN  IF seps = {} THEN 0 ELSE CHOOSE i \in seps : \A j \in seps : j <= i

split_directory_and_file(path) ==
    LET pivot == Pivot(path)
        extracted_directory == SubSeq(path, 1, pivot)
    IN  [ directory |-> IF Len(extracted_directory) > 0
                          THEN extracted_directory
                          ELSE <<".", "/">>,
          filename  |-> SubSeq(path, pivot + 1, Len(path)) ]

\* mutant of pass_filter: the single-file test is left out
pass_filter_all(file_path) == TRUE

pass_filter(file_path) ==
    IF _watching_single_file
      THEN split_directory_and_file(file_path).filename = _filename
      ELSE TRUE

\* ------------------------------------------------------------------- Init
Init ==
    /\ platform \in {"unix", "win32"}
    /\ \E t \in Targets : _path = t[1] /\ pathType = t[2]
    /\ _callback \in BOOLEAN
    /\ ownerpc = IF platform = "unix" THEN "inotify_init" ELSE "attributes"
    /\ folder = "none"
    /\ watch = "none"
    /\ _close_event = "none"
    /\ _watching_single_file = FALSE
    /\ _filename = <<>>
    /\ _destory = FALSE
    /\ mutex = "free"
    /\ _callback_information = <<>>
    /\ watchpc = "idle"
    /\ parsed_information = <<>>
    /\ cbpc = "idle"
    /\ callback_information = <<>>
    /\ running = {}
    /\ terminated = FALSE
    /\ ops = <<>>
    /\ oslog = <<>>
    /\ osread = 0
    /\ enqueued = <<>>
    /\ calls = <<>>

\* ------------------------------------------------------------ constructor
\* unix get_directory: inotify_init(), throws on failure
get_directory_init ==
    /\ ownerpc = "inotify_init"
    /\ \E ok \in BOOLEAN :
         IF ok THEN folder' = "open" /\ ownerpc' = "attributes"
               ELSE folder' = folder /\ ownerpc' = "ctor_failed"
    /\ UNCHANGED <<session, watch, _close_event, target, _destory, mutex,
                   _callback_information, monvars, cbvars, terminated,
                   osvars, hist>>

\* is_file (stat) / GetFileAttributes: throws when the attributes cannot be
\* read, otherwise decides single-file mode
get_directory_attributes ==
    /\ ownerpc = "attributes"
    /\ IF pathType = "missing"
         THEN /\ ownerpc' = "ctor_failed"
              /\ UNCHANGED _watching_single_file
         ELSE /\ _watching_single_file' = (pathType = "file")
              /\ ownerpc' = "register"
    /\ UNCHANGED <<session, folder, watch, _close_event, _filename, _destory,
                   mutex, _callback_information, monvars, cbvars, terminated,
                   osvars, hist>>

\* the watch_path lambda, then inotify_add_watch / CreateFile; throws on
\* failure
get_directory_register ==
    /\ ownerpc = "register"
    /\ _filename' = IF _watching_single_file
                      THEN split_directory_and_file(_path).filename
                      ELSE _filename
    /\ \E ok \in BOOLEAN :
         IF ok
           THEN IF platform = "unix"
                  THEN /\ watch' = "active"
                       /\ folder' = folder
                       /\ ownerpc' = "start_callback_thread"
                  ELSE /\ folder' = "open"
                       /\ watch' = watch
                       /\ ownerpc' = "create_event"
           ELSE /\ ownerpc' = "ctor_failed"
                /\ UNCHANGED <<folder, watch>>
    /\ UNCHANGED <<session, _close_event, _watching_single_file, _destory,
                   mutex, _callback_information, monvars, cbvars, terminated,
                   osvars, hist>>

get_directory ==
    \/ get_directory_init
    \/ get_directory_attributes
    \/ get_directory_register

\* win32 constructor body: CreateEvent, throws on failure
ctor_create_event ==
    /\ ownerpc = "create_event"
    /\ \E ok \in BOOLEAN :
         IF ok THEN _close_event' = "unset" /\ ownerpc' = "start_callback_thread"
               ELSE _close_event' = _close_event /\ ownerpc' = "ctor_failed"
    /\ UNCHANGED <<session, folder, watch, target, _destory, mutex,
                   _callback_information, monvars, cbvars, terminated,
                   osvars, hist>>

\* _callback_thread = std::thread(callback_thread)
ctor_start_callback_thread ==
    /\ ownerpc = "start_callback_thread"
    /\ cbpc' = "while"
    /\ ownerpc' = "start_watch_thread"
    /\ UNCHANGED <<session, folder, watch, _close_event, target, _destory,
                   mutex, _callback_information, monvars,
                   callback_information, running, terminated, osvars, hist>>

\* _watch_thread = std::thread(monitor_directory); the unix loop starts at
\* its while test, the win32 do-while at its first read
ctor_start_watch_thread ==
    /\ ownerpc = "start_watch_thread"
    /\ watchpc' = IF platform = "unix" THEN "check" ELSE "read"
    /\ ownerpc' = "running"
    /\ UNCHANGED <<session, folder, watch, _close_event, target, _destory,
                   mutex, _callback_information, parsed_information, cbvars,
                   terminated, osvars, hist>>

FileWatch_ctor ==
    \/ get_directory
    \/ ctor_create_event
    \/ ctor_start_callback_thread
    \/ ctor_start_watch_thread

\* ------------------------------------------------- the OS notification source
\* the mask passed to inotify_add_watch
WatchMask == {"IN_MODIFY", "IN_CREATE", "IN_DELETE"}

\* the inotify events mutation m (the k-th) raises on the watched directory;
\* the kernel queues only those whose mask meets the watch's mask
InotifyEvents(m, k) ==
    LET raised_events ==
          IF m.op = "create"
            THEN << [name |-> m.name, mask |-> {"IN_CREATE"}, op |-> k] >>
          ELSE IF m.op = "modify"
            THEN << [name |-> m.name, mask |-> {"IN_MODIFY"}, op |-> k] >>
          ELSE IF m.op = "delete"
            THEN << [name |-> m.name, mask |-> {"IN_DELETE"}, op |-> k] >>
          ELSE << [name |-> m.name, mask |-> {"IN_MOVED_FROM"}, op |-> k],
                  [name |-> m.to,   mask |-> {"IN_MOVED_TO"},   op |-> k] >>
        Watched(e) == e.mask \cap WatchMask # {}
    IN  SelectSeq(raised_events, Watched)

\* the FILE_NOTIFY_INFORMATION entries mutation m raises; _listen_filters
\* holds FILE_NOTIFY_CHANGE_FILE_NAME, _LAST_WRITE and _CREATION
DirectoryChanges(m, k) ==
    IF m.op = "create"
      THEN << [name |-> m.name, Action |-> "FILE_ACTION_ADDED", op |-> k] >>
    ELSE IF m.op = "modify"
      THEN << [name |-> m.name, Action |-> "FILE_ACTION_MODIFIED", op |-> k] >>
    ELSE IF m.op = "delete"
      THEN << [name |-> m.name, Action |-> "FILE_ACTION_REMOVED", op |-> k] >>
    ELSE << [name |-> m.name, Action |-> "FILE_ACTION_RENAMED_OLD_NAME", op |-> k],
            [name |-> m.to,   Action |-> "FILE_ACTION_RENAMED_NEW_NAME", op |-> k] >>

\* the record inotify queues when a watch goes away (event->len = 0)
InIgnored == [name |-> <<>>, mask |-> {"IN_IGNORED"}, op |-> 0]

\* the OS still reports changes of the watched directory
Watching ==
    IF platform = "unix"
      THEN watch = "active"
      ELSE folder = "open" /\ watchpc \in {"read", "failed", "lock", "insert", "notify", "check"}

\* the environment mutates the watched directory
OsMutation ==
    /\ ~terminated
    /\ Watching
    /\ Len(ops) < MaxOps
    /\ \E m \in Mutations :
         /\ ops' = Append(ops, m)
         /\ oslog' = oslog \o (IF platform = "unix"
                                 THEN InotifyEvents(m, Len(ops) + 1)
                                 ELSE DirectoryChanges(m, Len(ops) + 1))
    /\ UNCHANGED <<session, ownerpc, folder, watch, _close_event, target,
                   _destory, mutex, _callback_information, monvars, cbvars,
                   terminated, osread, hist>>

\* the OS hands over a named record whose action code the decode has no
\* entry for (win32: an Action outside FILE_ACTION_ADDED..RENAMED_NEW_NAME,
\* such as FILE_ACTION_ADDED_STREAM; unix: a mask outside the three bits the
\* chain tests).  The watch as registered does not ask for such records, so
\* this input is part of UnmappedSpec only.
OsUnmappedRecord ==
    /\ ~terminated
    /\ Watching
    /\ Len(ops) < MaxOps
    /\ \E n \in {NameA, NameB} :
         /\ ops' = Append(ops, [op |-> "other", name |-> n, to |-> << >>])
         /\ oslog' = Append(oslog,
                IF platform = "unix"
                  THEN [name |-> n, mask |-> {"IN_ATTRIB"}, op |-> Len(ops) + 1]
                  ELSE [name |-> n, Action |-> "FILE_ACTION_ADDED_STREAM",
                        op |-> Len(ops) + 1])
    /\ UNCHANGED <<session, ownerpc, folder, watch, _close_event, target,
                   _destory, mutex, _callback_information, monvars, cbvars,
                   terminated, osread, hist>>

\* the watched directory itself is deleted: inotify drops the watch and queues
\* IN_IGNORED
OsDropWatch ==
    /\ platform = "unix"
    /\ watch = "active"
    /\ ownerpc = "running"
    /\ watch' = "removed"
    /\ oslog' = Append(oslog, InIgnored)
    /\ UNCHANGED <<session, ownerpc, folder, _close_event, target, _destory,
                   mutex, _callback_information, monvars, cbvars, terminated,
                   ops, osread, hist>>

\* ---------------------------------------------------------- monitor thread
_event_type_mapping ==
    [ a \in {"FILE_ACTION_ADDED", "FILE_ACTION_REMOVED", "FILE_ACTION_MODIFIED",
             "FILE_ACTION_RENAMED_OLD_NAME", "FILE_ACTION_RENAMED_NEW_NAME"} |->
        IF a = "FILE_ACTION_ADDED" THEN "added"
        ELSE IF a = "FILE_ACTION_REMOVED" THEN "removed"
        ELSE IF a = "FILE_ACTION_MODIFIED" THEN "modified"
        ELSE IF a = "FILE_ACTION_RENAMED_OLD_NAME" THEN "renamed_old"
        ELSE "renamed_new" ]

\* the unix mask chain on one inotify_event: what it appends to
\* parsed_information.  Two fields of an entry are bookkeeping, invisible to
\* the program: id, the index of the OS record the entry was decoded from,
\* and late, whether _destory was already set when that record was read.
InotifyDecode(i) ==
    LET event == oslog[i]
    IN  IF Len(event.name) > 0 /\ pass_filter(event.name)
          THEN IF "IN_CREATE" \in event.mask
                 THEN << [id |-> i, file |-> event.name, event |-> "added",
                          late |-> _destory] >>
               ELSE IF "IN_DELETE" \in event.mask
                 THEN << [id |-> i, file |-> event.name, event |-> "removed",
                          late |-> _destory] >>
               ELSE IF "IN_MODIFY" \in event.mask
                 THEN << [id |-> i, file |-> event.name, event |-> "modified",
                          late |-> _destory] >>
               ELSE << >>
          ELSE << >>

\* the win32 body on one FILE_NOTIFY_INFORMATION
DirectoryChangeDecode(i) ==
    LET file_information == oslog[i]
    IN  IF pass_filter(file_information.name)
          THEN << [id |-> i, file |-> file_information.name,
                   event |-> _event_type_mapping[file_information.Action],
                   late |-> _destory] >>
          ELSE << >>

\* the decode loop over the records i..n of one read
RECURSIVE ParseBuffer(_, _)
ParseBuffer(i, n) ==
    IF i > n THEN << >>
    ELSE (IF platform = "unix" THEN InotifyDecode(i) ELSE DirectoryChangeDecode(i))
         \o ParseBuffer(i + 1, n)

\* cv.notify_all(): every thread blocked in cv.wait becomes runnable
NotifiedCbpc == IF cbpc = "waiting" THEN "wake" ELSE cbpc

\* a loop test that does not look at the flag
mon_check_ignores_flag ==
    /\ watchpc = "check"
    /\ watchpc' = "read"
    /\ UNCHANGED <<session, ownerpc, folder, watch, _close_event, target,
                   _destory, mutex, _callback_information, parsed_information,
                   cbvars, terminated, osvars, hist>>

\* while (_destory == false): unix loop head, win32 loop tail
mon_check ==
    /\ watchpc = "check"
    /\ watchpc' = IF _destory THEN "done" ELSE "read"
    /\ UNCHANGED <<session, ownerpc, folder, watch, _close_event, target,
                   _destory, mutex, _callback_information, parsed_information,
                   cbvars, terminated, osvars, hist>>

\* win32: _event_type_mapping.at(Action) throws std::out_of_range for some
\* record i..n that passed the filter
MapThrows(i, n) ==
    /\ platform = "win32"
    /\ \E j \in i..n : /\ pass_filter(oslog[j].name)
                       /\ oslog[j].Action \notin DOMAIN _event_type_mapping

\* read() / WAIT_OBJECT_0: the blocking read returns the pending records and
\* the decode loop fills parsed_information
mon_read ==
    /\ watchpc = "read"
    /\ osread < Len(oslog)
    /\ ~MapThrows(osread + 1, Len(oslog))
    /\ parsed_information' = ParseBuffer(osread + 1, Len(oslog))
    /\ osread' = Len(oslog)
    /\ watchpc' = "lock"
    /\ UNCHANGED <<session, ownerpc, folder, watch, _close_event, target,
                   _destory, mutex, _callback_information, cbvars, terminated,
                   ops, oslog, hist>>

\* WAIT_OBJECT_0 with a record the map has no entry for: the exception
\* leaves monitor_directory, the thread's entry function, and std::terminate
\* ends the process
mon_read_throws ==
    /\ watchpc = "read"
    /\ osread < Len(oslog)
    /\ MapThrows(osread + 1, Len(oslog))
    /\ osread' = Len(oslog)
    /\ terminated' = TRUE
    /\ ownerpc' = "aborted"
    /\ watchpc' = "aborted"
    /\ cbpc' = "aborted"
    /\ running' = {}
    /\ UNCHANGED <<session, folder, watch, _close_event, target, _destory,
                   mutex, _callback_information, parsed_information,
                   callback_information, ops, oslog, hist>>

\* win32 WAIT_OBJECT_0 + 1: the close event is signalled
mon_wait_quit ==
    /\ watchpc = "read"
    /\ platform = "win32"
    /\ _close_event = "set"
    /\ parsed_information' = << >>
    /\ watchpc' = "lock"
    /\ UNCHANGED <<session, ownerpc, folder, watch, _close_event, target,
                   _destory, mutex, _callback_information, cbvars, terminated,
                   osvars, hist>>

\* read() returns <= 0 (the `if (length > 0)` body is not entered) /
\* WaitForMultipleObjects returns WAIT_FAILED (`case WAIT_FAILED: break`)
mon_read_failed ==
    /\ watchpc = "read"
    /\ parsed_information' = << >>
    /\ watchpc' = "failed"
    /\ UNCHANGED <<session, ownerpc, folder, watch, _close_event, target,
                   _destory, mutex, _callback_information, cbvars, terminated,
                   ops, oslog, osread, hist>>

\* mutant of mon_after_failure: the failed wait ends the loop
mon_after_failure_exits ==
    /\ watchpc = "failed"
    /\ watchpc' = "done"
    /\ UNCHANGED <<session, ownerpc, folder, watch, _close_event, target,
                   _destory, mutex, _callback_information, parsed_information,
                   cbvars, terminated, osvars, hist>>

\* what follows the failed wait: unix falls through to the loop test, win32
\* leaves the switch and goes on to the append of the (empty) batch
mon_after_failure ==
    /\ watchpc = "failed"
    /\ watchpc' = IF platform = "unix" THEN "check" ELSE "lock"
    /\ UNCHANGED <<session, ownerpc, folder, watch, _close_event, target,
                   _destory, mutex, _callback_information, parsed_information,
                   cbvars, terminated, osvars, hist>>

\* std::lock_guard<std::mutex> lock(_callback_mutex)
mon_lock ==
    /\ watchpc = "lock"
    /\ mutex = "free"
    /\ mutex' = "monitor"
    /\ watchpc' = "insert"
    /\ UNCHANGED <<session, ownerpc, folder, watch, _close_event, target,
                   _destory, _callback_information, parsed_information, cbvars,
                   terminated, osvars, hist>>

\* mutant of mon_insert: the batch is inserted at the front of the queue
mon_insert_front ==
    /\ watchpc = "insert"
    /\ _callback_information' = parsed_information \o _callback_information
    /\ enqueued' = enqueued \o parsed_information
    /\ parsed_information' = << >>
    /\ mutex' = "free"
    /\ watchpc' = "notify"
    /\ UNCHANGED <<session, ownerpc, folder, watch, _close_event, target,
                   _destory, cbvars, terminated, osvars, calls>>

\* _callback_information.insert(end, parsed...), then the guard unlocks
mon_insert ==
    /\ watchpc = "insert"
    /\ _callback_information' = _callback_information \o parsed_information
    /\ enqueued' = enqueued \o parsed_information
    /\ parsed_information' = << >>
    /\ mutex' = "free"
    /\ watchpc' = "notify"
    /\ UNCHANGED <<session, ownerpc, folder, watch, _close_event, target,
                   _destory, cbvars, terminated, osvars, calls>>

\* mutant of mon_notify: the wake signal is left out
mon_notify_missing ==
    /\ watchpc = "notify"
    /\ watchpc' = "check"
    /\ UNCHANGED <<session, ownerpc, folder, watch, _close_event, target,
                   _destory, mutex, _callback_information, parsed_information,
                   cbvars, terminated, osvars, hist>>

\* mutant of mon_notify: the monitor thread calls the user callback itself
mon_notify_and_call ==
    /\ watchpc = "notify"
    /\ cbpc' = NotifiedCbpc
    /\ running' = running \cup {"monitor"}
    /\ watchpc' = "check"
    /\ UNCHANGED <<session, ownerpc, folder, watch, _close_event, target,
                   _destory, mutex, _callback_information, parsed_information,
                   callback_information, terminated, osvars, hist>>

\* cv.notify_all()
mon_notify ==
    /\ watchpc = "notify"
    /\ cbpc' = NotifiedCbpc
    /\ watchpc' = "check"
    /\ UNCHANGED <<session, ownerpc, folder, watch, _close_event, target,
                   _destory, mutex, _callback_information, parsed_information,
                   callback_information, running, terminated, osvars, hist>>

monitor_directory ==
    \/ mon_check
    \/ mon_read
    \/ mon_wait_quit
    \/ mon_read_failed
    \/ mon_after_failure
    \/ mon_lock
    \/ mon_insert
    \/ mon_notify

\* the monitor's steps that depend on nothing but the thread being scheduled
\* (and, for the reads, on data or the close event being there): all of
\* monitor_directory but the failure of the wait
monitor_steps ==
    \/ mon_check
    \/ mon_read
    \/ mon_wait_quit
    \/ mon_after_failure
    \/ mon_lock
    \/ mon_insert
    \/ mon_notify

\* ------------------------------------------------------- dispatcher thread
\* while (_destory == false)
cb_while ==
    /\ cbpc = "while"
    /\ cbpc' = IF _destory THEN "done" ELSE "lock"
    /\ UNCHANGED <<session, ownerpc, folder, watch, _close_event, target,
                   _destory, mutex, _callback_information, monvars,
                   callback_information, running, terminated, osvars, hist>>

\* std::unique_lock<std::mutex> lock(_callback_mutex)
cb_lock ==
    /\ cbpc = "lock"
    /\ mutex = "free"
    /\ mutex' = "dispatcher"
    /\ cbpc' = "if"
    /\ UNCHANGED <<session, ownerpc, folder, watch, _close_event, target,
                   _destory, _callback_information, monvars,
                   callback_information, running, terminated, osvars, hist>>

\* if (_callback_information.empty() && _destory == false)
cb_if ==
    /\ cbpc = "if"
    /\ cbpc' = IF _callback_information = << >> /\ ~_destory
                 THEN "predicate" ELSE "swap"
    /\ UNCHANGED <<session, ownerpc, folder, watch, _close_event, target,
                   _destory, mutex, _callback_information, monvars,
                   callback_information, running, terminated, osvars, hist>>

\* cv.wait(lock, pred): the predicate, evaluated with the mutex held
cb_predicate ==
    /\ cbpc = "predicate"
    /\ cbpc' = IF Len(_callback_information) > 0 \/ _destory
                 THEN "swap" ELSE "block"
    /\ UNCHANGED <<session, ownerpc, folder, watch, _close_event, target,
                   _destory, mutex, _callback_information, monvars,
                   callback_information, running, terminated, osvars, hist>>

\* cv.wait(lock): release the mutex and block, atomically
cb_block ==
    /\ cbpc = "block"
    /\ mutex' = "free"
    /\ cbpc' = "waiting"
    /\ UNCHANGED <<session, ownerpc, folder, watch, _close_event, target,
                   _destory, _callback_information, monvars,
                   callback_information, running, terminated, osvars, hist>>

\* a spurious wake-up of cv.wait(lock)
cb_spurious_wake ==
    /\ cbpc = "waiting"
    /\ cbpc' = "wake"
    /\ UNCHANGED <<session, ownerpc, folder, watch, _close_event, target,
                   _destory, mutex, _callback_information, monvars,
                   callback_information, running, terminated, osvars, hist>>

\* cv.wait(lock) returning: re-acquire the mutex, back to the predicate
cb_wake ==
    /\ cbpc = "wake"
    /\ mutex = "free"
    /\ mutex' = "dispatcher"
    /\ cbpc' = "predicate"
    /\ UNCHANGED <<session, ownerpc, folder, watch, _close_event, target,
                   _destory, _callback_information, monvars,
                   callback_information, running, terminated, osvars, hist>>

\* mutant of cb_swap: the lock is not released before the callbacks
cb_swap_keeps_lock ==
    /\ cbpc = "swap"
    /\ callback_information' = _callback_information
    /\ _callback_information' = << >>
    /\ cbpc' = "for"
    /\ UNCHANGED <<session, ownerpc, folder, watch, _close_event, target,
                   _destory, mutex, monvars, running, terminated, osvars,
                   hist>>

\* mutant of cb_swap: the batch is copied and the shared queue keeps it
cb_swap_copies ==
    /\ cbpc = "swap"
    /\ callback_information' = _callback_information
    /\ mutex' = "free"
    /\ cbpc' = "for"
    /\ UNCHANGED <<session, ownerpc, folder, watch, _close_event, target,
                   _destory, _callback_information, monvars, running,
                   terminated, osvars, hist>>

\* std::swap(callback_information, _callback_information); lock.unlock()
cb_swap ==
    /\ cbpc = "swap"
    /\ callback_information' = _callback_information
    /\ _callback_information' = << >>
    /\ mutex' = "free"
    /\ cbpc' = "for"
    /\ UNCHANGED <<session, ownerpc, folder, watch, _close_event, target,
                   _destory, monvars, running, terminated, osvars, hist>>

\* for (const auto& file : callback_information) if (_callback) _callback(...)
cb_for ==
    /\ cbpc = "for"
    /\ IF callback_information = << >>
         THEN /\ cbpc' = "while"
              /\ UNCHANGED <<callback_information, running, calls>>
         ELSE IF _callback
           THEN /\ calls' = Append(calls, Head(callback_information))
                /\ running' = running \cup {"dispatcher"}
                /\ cbpc' = "callback"
                /\ UNCHANGED callback_information
           ELSE /\ callback_information' = Tail(callback_information)
                /\ UNCHANGED <<cbpc, running, calls>>
    /\ UNCHANGED <<session, ownerpc, folder, watch, _close_event, target,
                   _destory, mutex, _callback_information, monvars,
                   terminated, osvars, enqueued>>

\* the user callback returns
callback_returns ==
    /\ cbpc = "callback"
    /\ callback_information' = Tail(callback_information)
    /\ running' = running \ {"dispatcher"}
    /\ cbpc' = "for"
    /\ UNCHANGED <<session, ownerpc, folder, watch, _close_event, target,
                   _destory, mutex, _callback_information, monvars,
                   terminated, osvars, hist>>

\* the user callback throws a std::exception: catch (const std::exception&) {}
callback_throws_exception ==
    /\ cbpc = "callback"
    /\ callback_information' = Tail(callback_information)
    /\ running' = running \ {"dispatcher"}
    /\ cbpc' = "for"
    /\ UNCHANGED <<session, ownerpc, folder, watch, _close_event, target,
                   _destory, mutex, _callback_information, monvars,
                   terminated, osvars, hist>>

\* the user callback throws anything else: no handler matches, the exception
\* leaves the thread function and std::terminate ends the process with all
\* its threads
callback_throws_other ==
    /\ cbpc = "callback"
    /\ terminated' = TRUE
    /\ ownerpc' = "aborted"
    /\ watchpc' = "aborted"
    /\ cbpc' = "aborted"
    /\ running' = {}
    /\ UNCHANGED <<session, folder, watch, _close_event, target, _destory,
                   mutex, _callback_information, parsed_information,
                   callback_information, osvars, hist>>

callback_thread ==
    \/ cb_while
    \/ cb_lock
    \/ cb_if
    \/ cb_predicate
    \/ cb_block
    \/ cb_wake
    \/ cb_swap
    \/ cb_for
    \/ callback_returns
    \/ callback_throws_exception

\* -------------------------------------------------------------- destructor
\* _destory = true
dtor_set_destory ==
    /\ ownerpc = "running"
    /\ _destory' = TRUE
    /\ ownerpc' = "wake_monitor"
    /\ UNCHANGED <<session, folder, watch, _close_event, target, mutex,
                   _callback_information, monvars, cbvars, terminated,
                   osvars, hist>>

\* SetEvent(_close_event) / inotify_rm_watch(folder, watch): removing a live
\* watch queues IN_IGNORED, removing a dropped one fails and queues nothing
dtor_wake_monitor ==
    /\ ownerpc = "wake_monitor"
    /\ IF platform = "win32"
         THEN /\ _close_event' = "set"
              /\ UNCHANGED <<watch, oslog>>
         ELSE IF watch = "active"
           THEN /\ watch' = "removed"
                /\ oslog' = Append(oslog, InIgnored)
                /\ UNCHANGED _close_event
           ELSE UNCHANGED <<watch, oslog, _close_event>>
    /\ ownerpc' = "notify_all"
    /\ UNCHANGED <<session, folder, target, _destory, mutex,
                   _callback_information, monvars, cbvars, terminated, ops,
                   osread, hist>>

\* cv.notify_all()
dtor_notify_all ==
    /\ ownerpc = "notify_all"
    /\ cbpc' = NotifiedCbpc
    /\ ownerpc' = "join_watch"
    /\ UNCHANGED <<session, folder, watch, _close_event, target, _destory,
                   mutex, _callback_information, monvars,
                   callback_information, running, terminated, osvars, hist>>

\* mutant of dtor_join_watch: the destructor goes on without the monitor
\* having exited
dtor_join_watch_skipped ==
    /\ ownerpc = "join_watch"
    /\ ownerpc' = "join_callback"
    /\ UNCHANGED <<session, folder, watch, _close_event, target, _destory,
                   mutex, _callback_information, monvars, cbvars, terminated,
                   osvars, hist>>

\* _watch_thread.join()
dtor_join_watch ==
    /\ ownerpc = "join_watch"
    /\ watchpc = "done"
    /\ ownerpc' = "join_callback"
    /\ UNCHANGED <<session, folder, watch, _close_event, target, _destory,
                   mutex, _callback_information, monvars, cbvars, terminated,
                   osvars, hist>>

\* mutant of dtor_join_callback: the destructor does not wait for the thread
dtor_detach_callback ==
    /\ ownerpc = "join_callback"
    /\ ownerpc' = "close"
    /\ UNCHANGED <<session, folder, watch, _close_event, target, _destory,
                   mutex, _callback_information, monvars, cbvars, terminated,
                   osvars, hist>>

\* _callback_thread.join()
dtor_join_callback ==
    /\ ownerpc = "join_callback"
    /\ cbpc = "done"
    /\ ownerpc' = "close"
    /\ UNCHANGED <<session, folder, watch, _close_event, target, _destory,
                   mutex, _callback_information, monvars, cbvars, terminated,
                   osvars, hist>>

\* CloseHandle(_directory) / close(_directory.folder)
dtor_close ==
    /\ ownerpc = "close"
    /\ folder' = "closed"
    /\ ownerpc' = "destroyed"
    /\ UNCHANGED <<session, watch, _close_event, target, _destory, mutex,
                   _callback_information, monvars, cbvars, terminated,
                   osvars, hist>>

FileWatch_dtor ==
    \/ dtor_set_destory
    \/ dtor_wake_monitor
    \/ dtor_notify_all
    \/ dtor_join_watch
    \/ dtor_join_callback
    \/ dtor_close

\* ------------------------------------------------------------ specification
Next ==
    \/ FileWatch_ctor
    \/ FileWatch_dtor
    \/ monitor_directory
    \/ callback_thread
    \/ cb_spurious_wake
    \/ callback_throws_other
    \/ OsMutation
    \/ OsDropWatch

Spec == Init /\ [][Next]_vars

\* Scheduling: every program thread that can take a step eventually takes
\* one, a thread waiting for the mutex gets it when it is released again and
\* again, a read that has data to return again and again eventually returns
\* it, and a user callback that was entered comes back.  Nothing is assumed
\* of the environment (filesystem mutations, failures of the wait), of
\* spurious wake-ups, or of the owner ever entering the destructor.
FairSpec ==
    /\ Spec
    /\ WF_vars(FileWatch_ctor)
    /\ WF_vars(dtor_wake_monitor \/ dtor_notify_all \/ dtor_join_watch
                 \/ dtor_join_callback \/ dtor_close)
    /\ WF_vars(monitor_steps)
    /\ SF_vars(mon_read)
    /\ WF_vars(callback_thread)
    /\ SF_vars(mon_lock)
    /\ SF_vars(cb_lock)
    /\ SF_vars(cb_wake)

\* A session that is never destroyed: everything but the destructor and the
\* monitor's reaction to the close event, under the same scheduling.
monitor_running ==
    \/ mon_check
    \/ mon_read
    \/ mon_read_failed
    \/ mon_after_failure
    \/ mon_lock
    \/ mon_insert
    \/ mon_notify

NextRunning ==
    \/ FileWatch_ctor
    \/ monitor_running
    \/ callback_thread
    \/ cb_spurious_wake
    \/ callback_throws_other
    \/ OsMutation
    \/ OsDropWatch

RunningSpec ==
    /\ Init /\ [][NextRunning]_vars
    /\ WF_vars(FileWatch_ctor)
    /\ WF_vars(mon_check \/ mon_read \/ mon_after_failure \/ mon_lock
                 \/ mon_insert \/ mon_notify)
    /\ SF_vars(mon_read)
    /\ WF_vars(callback_thread)
    /\ SF_vars(mon_lock)
    /\ SF_vars(cb_lock)
    /\ SF_vars(cb_wake)

\* A running session whose OS also hands over records with unmapped action
\* codes.
NextUnmapped ==
    \/ FileWatch_ctor
    \/ monitor_running
    \/ mon_read_throws
    \/ callback_thread
    \/ cb_spurious_wake
    \/ callback_throws_other
    \/ OsMutation
    \/ OsUnmappedRecord
    \/ OsDropWatch

UnmappedSpec == Init /\ [][NextUnmapped]_vars

\* ------------------------------------------------------------------ claims
CallIds == { calls[k].id : k \in 1..Len(calls) }
EnqueuedIds == { enqueued[k].id : k \in 1..Len(enqueued) }
ParsedIds == { parsed_information[k].id : k \in 1..Len(parsed_information) }

\* C1: callbacks are invoked in the order the records were read from the OS:
\* the ids (positions in the OS's record stream) of the invocations made so
\* far are strictly increasing.
C1_OrderPreserved ==
    \A i, j \in 1..Len(calls) : i < j => calls[i].id < calls[j].id

\* three deliveries (so at least two reads or a two-record batch), and the
\* destructor has run to its end
C1_Witness == Len(calls) >= 3 /\ ownerpc = "destroyed"

\* C2: when the destructor has returned, the queue is empty and every entry
\* the monitor ever appended has been passed to the callback.
C2_DrainBeforeTeardown ==
    (ownerpc = "destroyed" /\ _callback)
        => /\ _callback_information = << >>
           /\ EnqueuedIds \subseteq CallIds

\* C3: once the destructor is entered it returns (or the process has been
\* ended by std::terminate).
C3_DestructionCompletes ==
    (ownerpc = "wake_monitor") ~> (ownerpc = "destroyed" \/ terminated)

\* C4: however a callback in progress ends -- by returning or by raising any
\* failure -- the failure is discarded and control is back in the dispatcher
\* loop, which goes on to the next event.
C4_FailureIsolated ==
    [][cbpc = "callback" => cbpc' \in {"callback", "for"}]_vars

\* the portable kind a filesystem mutation is reported as: the first record
\* of a rename is the old name, the second the new one
ExpectedKind(i) ==
    LET m == ops[oslog[i].op]
    IN  IF m.op = "create" THEN "added"
        ELSE IF m.op = "modify" THEN "modified"
        ELSE IF m.op = "delete" THEN "removed"
        ELSE IF oslog[i].name = m.name THEN "renamed_old"
        ELSE "renamed_new"

\* the file-name component of a raw name: what follows its last separator
RECURSIVE LastComponent(_)
LastComponent(n) ==
    IF n = << >> THEN << >>
    ELSE IF n[Len(n)] = "/" \/ (platform = "win32" /\ n[Len(n)] = "\\")
      THEN << >>
    ELSE Append(LastComponent(SubSeq(n, 1, Len(n) - 1)), n[Len(n)])

\* record i was read by the monitor, names a file, and passes the filter
Accepted(i) ==
    /\ i <= osread
    /\ oslog[i].op > 0
    /\ _watching_single_file => LastComponent(oslog[i].name) = _filename

Delivered(i) == \E k \in 1..Len(calls) : calls[k].id = i

\* every invocation made so far is for a record that was read, carries that
\* record's name and the kind its mutation maps to, and no record has two
C5_DeliveredOnce ==
    \A k \in 1..Len(calls) :
        /\ \A l \in 1..Len(calls) : calls[l].id = calls[k].id => l = k
        /\ calls[k].id \in 1..osread
        /\ calls[k].file = oslog[calls[k].id].name
        /\ calls[k].event = ExpectedKind(calls[k].id)

\* every record accepted so far has been delivered, or shutdown was requested,
\* or the process was ended by a callback that did not return
C5_NothingOwed ==
    \/ _destory
    \/ terminated
    \/ ~_callback
    \/ \A i \in 1..osread : Accepted(i) => Delivered(i)

\* C5: every accepted record is delivered at most once, with its own name
\* and the kind its mutation maps to; and, with a callback installed, it is
\* eventually delivered unless shutdown is requested or the process is ended
\* by a callback that does not return (deliveries are never undone and the
\* records are finitely many, so "again and again nothing is owed" says that
\* each accepted record is eventually delivered).
C5_ExactlyOneCallback == [] C5_DeliveredOnce /\ []<> C5_NothingOwed

\* directory mode: the create record of a.txt was read and its one callback
\* (a.txt, added) made, with no shutdown requested
C5_Witness ==
    /\ ~_watching_single_file /\ ~_destory /\ ~terminated
    /\ \E i \in 1..osread :
         /\ oslog[i].op > 0
         /\ ops[oslog[i].op].op = "create"
         /\ \E k \in 1..Len(calls) :
              calls[k] = [id |-> i, file |-> NameA, event |-> "added",
                          late |-> FALSE]

\* C6: in single-file mode a record whose file-name component differs from
\* _filename is never parsed, enqueued or delivered, and everything that is
\* carries _filename as its file-name component; in directory mode every
\* record that names a file passes.
C6_FilterExclusivity ==
    /\ \A i \in 1..osread :
         IF Accepted(i)
           THEN i \in ParsedIds \cup EnqueuedIds
           ELSE i \notin ParsedIds \cup EnqueuedIds \cup CallIds
    /\ _watching_single_file =>
         /\ \A k \in 1..Len(enqueued) :
              LastComponent(enqueued[k].file) = _filename
         /\ \A k \in 1..Len(calls) :
              LastComponent(calls[k].file) = _filename

\* single-file mode on d/a: the sibling b was modified and read, and a
\* callback for a was made
C6_Witness ==
    /\ _watching_single_file
    /\ \E i \in 1..osread : oslog[i].name = NameB
    /\ \E k \in 1..Len(calls) : calls[k].file = NameA

\* the state the destructor leaves behind
C7_Closed ==
    ownerpc = "destroyed"
        => /\ watchpc = "done"
           /\ cbpc = "done"
           /\ folder = "closed"
           /\ running = {}

\* C7: once the destructor has returned both threads have exited, the
\* descriptor / directory handle is released, no callback is executing, and
\* no callback is invoked from then on.
C7_TeardownSynchronous ==
    /\ [] C7_Closed
    /\ [][ownerpc = "destroyed" => calls' = calls]_vars

\* the destructor returned after callbacks had been made
C7_Witness == ownerpc = "destroyed" /\ Len(calls) >= 1

\* C8: a constructor that failed holds no descriptor, handle or watch and
\* has started no thread.
C8_ConstructionAtomic ==
    ownerpc = "ctor_failed"
        => /\ folder # "open"
           /\ watch # "active"
           /\ _close_event = "none"
           /\ watchpc = "idle"
           /\ cbpc = "idle"

\* nothing is pending anywhere between the OS and the callback
Quiescent ==
    /\ ownerpc = "running" /\ ~_destory
    /\ watchpc = "read" /\ osread = Len(oslog)
    /\ _callback_information = << >>
    /\ cbpc = "waiting"

\* the callbacks made for the records of mutation k, in order
RECURSIVE CallsOf(_, _)
CallsOf(k, n) ==
    IF n = 0 THEN << >>
    ELSE CallsOf(k, n - 1)
         \o (IF oslog[calls[n].id].op = k
               THEN << [file |-> calls[n].file, event |-> calls[n].event] >>
               ELSE << >>)

\* C9: in directory mode, once everything pending has been delivered, a
\* rename of a to b has produced exactly (a, renamed_old) then
\* (b, renamed_new).
C9_RenameReported ==
    (Quiescent /\ _callback /\ ~_watching_single_file)
        => \A k \in 1..Len(ops) :
             ops[k].op = "rename"
               => CallsOf(k, Len(calls))
                    = << [file |-> ops[k].name, event |-> "renamed_old"],
                         [file |-> ops[k].to,   event |-> "renamed_new"] >>

\* C10: at most one user callback is in progress, and only the dispatcher
\* thread is ever inside one.
C10_OneCallbackAtATime ==
    /\ Cardinality(running) <= 1
    /\ running \subseteq {"dispatcher"}
    /\ running # {} <=> cbpc = "callback"

\* a callback is in progress while the monitor holds the queue mutex
C10_Witness == running = {"dispatcher"} /\ mutex = "monitor"

\* C11: the dispatcher leaves its loop only with the shutdown flag set and
\* the shared queue empty.
C11_ExitsOnlyWhenDrained ==
    [][(cbpc = "while" /\ cbpc' = "done")
         => (_destory /\ _callback_information = << >>)]_vars

\* C12: once the dispatcher thread has exited, the monitor appends nothing
\* more to the queue.
C12_NoAppendAfterDispatcherExit ==
    [][cbpc = "done" => _callback_information' = _callback_information]_vars

\* C13: once the destructor has set the flag and called notify_all, a
\* dispatcher that was at, or on its way into, cv.wait with an empty queue
\* eventually exits (or the process has been ended by std::terminate).
C13_ShutdownWakesDispatcher ==
    (/\ ownerpc = "join_watch"
     /\ cbpc \in {"if", "predicate", "block", "waiting", "wake"}
     /\ _callback_information = << >>)
        ~> (cbpc = "done" \/ terminated)

\* C14: once the destructor has set the flag and issued the monitor's wake
\* (SetEvent / inotify_rm_watch), the monitor thread eventually exits (or the
\* process has been ended by std::terminate).
C14_WakeUnblocksMonitor ==
    (ownerpc = "notify_all") ~> (watchpc = "done" \/ terminated)

\* C15 as stated: nothing that the monitor read after the flag was set is
\* ever appended to the queue.
C15_NothingEnqueuedAfterFlag ==
    \A k \in 1..Len(enqueued) : ~enqueued[k].late

LateData ==
    \/ \E k \in 1..Len(enqueued) : enqueued[k].late
    \/ \E k \in 1..Len(parsed_information) : parsed_information[k].late

\* C15 (amended): the monitor tests the flag once per iteration.  A read that
\* returns after the flag was set is still decoded and appended, and it is
\* the last one: the loop test that follows it exits, and after the exit the
\* monitor reads and appends nothing.
C15_NoReadOnceFlagObserved ==
    /\ [](LateData => watchpc \notin {"read", "failed"})
    /\ [][/\ (watchpc = "check" /\ _destory)
               => watchpc' \in {"check", "done", "aborted"}
          /\ (watchpc = "done")
               => (/\ watchpc' \in {"done", "aborted"}
                   /\ osread' = osread
                   /\ enqueued' = enqueued)]_vars

C15_Witness ==
    /\ watchpc = "done"
    /\ \E k \in 1..Len(enqueued) : enqueued[k].late
    /\ osread < Len(oslog)

\* C16: _callback_mutex is never held while a user callback executes nor
\* while the monitor is in its blocking read: during a callback the mutex is
\* free or held by the monitor for its append only, so a monitor that wants
\* the mutex during a callback is never kept out by the dispatcher.
C16_NoLockAcrossCallbackOrRead ==
    /\ running # {} => mutex \in {"free", "monitor"}
    /\ cbpc = "callback" => mutex # "dispatcher"
    /\ mutex = "dispatcher"
         => (cbpc \in {"if", "predicate", "block", "swap"} \/ terminated)
    /\ mutex = "monitor" => (watchpc = "insert" \/ terminated)
    /\ watchpc \in {"read", "failed"} => mutex # "monitor"
    /\ (cbpc = "callback" /\ watchpc = "lock" /\ mutex = "free")
         => ENABLED mon_lock

C16_Witness ==
    /\ running = {"dispatcher"}
    /\ watchpc = "notify"
    /\ mutex = "free"
    /\ Len(_callback_information) > 0

\* the destructor's positions, in program order
DtorSteps ==
    << "wake_monitor", "notify_all", "join_watch", "join_callback", "close",
       "destroyed" >>

InDtor == \E i \in 1..Len(DtorSteps) : DtorSteps[i] = ownerpc

DtorPos == CHOOSE i \in 1..Len(DtorSteps) : DtorSteps[i] = ownerpc

\* what the destructor has done when it stands at each of its positions
C17_Done ==
    /\ _destory => (InDtor \/ terminated)
    /\ InDtor =>
         /\ _destory
         /\ DtorPos >= 2 => IF platform = "win32" THEN _close_event = "set"
                                                  ELSE watch # "active"
         /\ DtorPos >= 4 => watchpc = "done"
         /\ DtorPos >= 5 => cbpc = "done"
    /\ folder = "closed" <=> ownerpc = "destroyed"

\* C17: the destructor sets the flag, wakes the monitor, notifies the
\* condition variable, joins the monitor, joins the dispatcher and releases
\* the descriptor / handle, in this order; the release happens once, and only
\* when both threads have exited.
C17_TeardownOrder ==
    /\ [] C17_Done
    /\ [][/\ (_destory' /\ ~_destory) => ownerpc' = DtorSteps[1]
          /\ (InDtor /\ ownerpc' # ownerpc)
               => \/ ownerpc' = "aborted"
                  \/ DtorPos < Len(DtorSteps) /\ ownerpc' = DtorSteps[DtorPos + 1]
          /\ (ownerpc = "notify_all" /\ ownerpc' = "join_watch")
               => cbpc' # "waiting"
          /\ (folder' # folder /\ folder' = "closed")
               => (/\ folder = "open" /\ ownerpc = "close"
                   /\ watchpc = "done" /\ cbpc = "done")
          /\ folder = "closed" => folder' = "closed"]_vars

\* the destructor went through all its steps on unix, the monitor having
\* read the IN_IGNORED record last
C17_Witness ==
    /\ ownerpc = "destroyed" /\ folder = "closed"
    /\ platform = "unix"
    /\ osread = Len(oslog) /\ osread > 0
    /\ oslog[osread] = InIgnored

\* C18 as stated: when the wait reports failure and no shutdown was
\* requested, the monitor's next step is the exit of its loop.
C18_FailureExitsLoop ==
    [][(watchpc = "failed" /\ ~_destory)
         => watchpc' \in {"failed", "done", "aborted"}]_vars

\* C18 (amended): a failed wait does not end the monitor.  Nothing is
\* decoded or appended for it (win32 appends an empty batch and notifies),
\* the loop goes on to its test, which sends it back to the wait unless the
\* shutdown flag is set, and the monitor thread exits only at that test.
C18_FailureKeepsMonitorRunning ==
    /\ [](watchpc = "failed" => parsed_information = << >>)
    /\ [](watchpc = "done" => _destory)
    /\ [][/\ (watchpc = "failed")
               => /\ watchpc' \in {"failed", "aborted",
                                   IF platform = "unix" THEN "check" ELSE "lock"}
                  /\ osread' = osread
                  /\ enqueued' = enqueued
          /\ (watchpc = "check" /\ ~_destory /\ watchpc' # watchpc)
               => watchpc' \in {"read", "aborted"}
          /\ (watchpc' = "done" /\ watchpc # "done")
               => (watchpc = "check" /\ _destory)]_vars

\* the wait has failed with no shutdown requested while OS records are
\* pending and the dispatcher waits
C18_Witness ==
    /\ watchpc = "failed" /\ ~_destory
    /\ osread < Len(oslog)
    /\ cbpc = "waiting"

\* record i carries an action code the decode has no entry for
Unmapped(i) == oslog[i].op > 0 /\ ops[oslog[i].op].op = "other"

\* the records i..n that name a file, carry a mapped action code and pass
\* the filter
Decodable(i, n) ==
    { j \in i..n :
        /\ oslog[j].op > 0
        /\ ~Unmapped(j)
        /\ _watching_single_file => LastComponent(oslog[j].name) = _filename }

\* C19: a read whose batch holds a record with an unmapped action code
\* skips that record: the monitor goes on to its append with exactly the
\* other decodable records of the batch, and keeps running.
C19_UnmappedSkipped ==
    [][osread' > osread
         => /\ watchpc' = "lock"
            /\ { parsed_information'[k].id : k \in 1..Len(parsed_information') }
                 = Decodable(osread + 1, osread')]_vars

\* the entries of the dispatcher's local batch it has not invoked the
\* callback for
Undelivered ==
    IF /\ callback_information # << >>
       /\ Len(calls) > 0
       /\ Head(callback_information) = calls[Len(calls)]
      THEN Tail(callback_information)
      ELSE callback_information

\* C20: the callback invocations made so far are a prefix of the events
\* enqueued so far: every invocation is of an enqueued event, in order, none
\* twice; with a callback set nothing is skipped either, the rest of the
\* enqueued events being the undelivered part of the local batch followed by
\* the shared queue.
C20_CallsPrefixOfEnqueued ==
    /\ Len(calls) <= Len(enqueued)
    /\ \A k \in 1..Len(calls) : calls[k] = enqueued[k]
    /\ \A j, k \in 1..Len(calls) : j # k => calls[j] # calls[k]
    /\ _callback => enqueued = calls \o Undelivered \o _callback_information

\* a callback is in progress, part of its batch is still to come, and the
\* monitor has appended more in the meantime
C20_Witness ==
    /\ cbpc = "callback"
    /\ Len(calls) >= 1
    /\ Len(callback_information) >= 2
    /\ Len(_callback_information) >= 1
====
